---- MODULE Spec2Model ----
(***************************************************************************)
(* The per-label, per-file event loop of scripts/scatter.py (lines 209 to  *)
(* 310): credible regions from the cumulative ordering, the per-event SNR  *)
(* file, the path-keyed interpolation cache, the sidereal rotation with    *)
(* its wraparound and roll loop, the peak, the antenna response and the    *)
(* per-label record list.                                                  *)
(*                                                                         *)
(* Units.  Right ascension as returned by the interpolation is in hours,   *)
(* sidereal time in hours, rotated right ascension in degrees.  The model  *)
(* uses whole hours; (-gmst + ra) * pi / 12 * 180 / pi is then 15 times    *)
(* the difference.  In binary floating point the product differs from that *)
(* by at most a few ulps and is exact at -180, 0 and 180, the only values  *)
(* the comparisons of the code test against.  Probabilities are in         *)
(* hundredths, so the targets 0.68, 0.95, 0.99 are 68, 95, 99.             *)
(*                                                                         *)
(* Grids.  A grid is modelled by its first row: the loop condition reads   *)
(* ra_int[0,0] and ra_int[0,-1] only, np.where acts element by element and *)
(* np.roll(axis=1) moves every row alike.                                  *)
(*                                                                         *)
(* Environment.  What the run reads from disk is fixed when it starts and  *)
(* is a function of the file: the injection record, the probability map,   *)
(* the SNR file, what the interpolation kernel returns for the map and     *)
(* what an earlier run left in the cache.  It is the variable world.       *)
(***************************************************************************)
EXTENDS Integers, Sequences, FiniteSets, TLC

VARIABLES world, fs, li, fi, pc, err,
          gmst, cumul, pix_size, prb68, prb95, prb99, flagged, snrs,
          ra_src, ra_int, dec_int, prob_int, rolls, ra_max,
          antenna_pattern, config_information, interp_calls, trace

vars == <<world, fs, li, fi, pc, err,
          gmst, cumul, pix_size, prb68, prb95, prb99, flagged, snrs,
          ra_src, ra_int, dec_int, prob_int, rolls, ra_max,
          antenna_pattern, config_information, interp_calls, trace>>

eventVars == <<gmst, cumul, pix_size, prb68, prb95, prb99, flagged, snrs,
               ra_src, ra_int, dec_int, prob_int, rolls, ra_max,
               antenna_pattern>>

(***************************************************************************)
(* Bounds                                                                  *)
(***************************************************************************)
\* columns of the interpolated grid (npts=500 in the source)
GridWidth == 4
\* files one glob pattern yields
MaxFiles == 2

\* the roll counter is an observer of the loop; it stops counting here
RollCap == GridWidth + 1

(***************************************************************************)
(* Program constants                                                       *)
(***************************************************************************)
Target68 == 68
Target95 == 95
Target99 == 99
MaxRegion == 64
HoursPerDay == 24
DegPerHour == 15
HalfTurn == 180
FullTurn == 360

\* the labels of the path specs, in the iteration order of the dictionary
Labels == <<"HLV", "HKLV">>

(***************************************************************************)
(* Pure functions                                                          *)
(***************************************************************************)
RECURSIVE SumTo(_, _)
SumTo(p, k) == IF k = 0 THEN 0 ELSE SumTo(p, k - 1) + p[k]

\* the running cumulative sum over the pixels in descending probability
Cumul(p) == [k \in 1..Len(p) |-> SumTo(p, k)]

RECURSIVE LeftFrom(_, _, _)
LeftFrom(a, v, i) ==
    IF i > Len(a) THEN Len(a)
    ELSE IF a[i] >= v THEN i - 1
    ELSE LeftFrom(a, v, i + 1)

\* np.searchsorted(a, v), side='left': the 0-based leftmost insertion
\* index, which is the number of entries of the sorted a that are below v
searchsorted(a, v) == LeftFrom(a, v, 1)

\* filename.replace("fits.gz", "intrp.npz"), on a name cut into pieces
CacheFname(filename) ==
    [i \in 1..Len(filename) |->
        IF filename[i] = "fits.gz" THEN "intrp.npz" ELSE filename[i]]

EndsWithNpz(name) ==
    Len(name) > 0 /\ name[Len(name)] \in {"intrp.npz", ".npz"}

\* the file np.savez(name, ...) writes: ".npz" is appended unless the
\* name already ends with it
SavezName(name) == IF EndsWithNpz(name) THEN name ELSE Append(name, ".npz")

\* np.mod(geocent_end_time / 3600., 24.), the end time given in hours
Gmst(end_hours) == end_hours % HoursPerDay

\* (-gmst + ra) * pi / 12, then * 180 / pi
Shift(ra, g) == (ra - g) * DegPerHour

WrapLowOnly(x) == IF x < -HalfTurn THEN x + FullTurn ELSE x

\* the two np.where lines, one after the other
Wrap(x) ==
    LET low == IF x < -HalfTurn THEN x + FullTurn ELSE x
    IN  IF low > HalfTurn THEN low - FullTurn ELSE low

\* ra_int[0,0] / ra_int[0,-1] > 0 in IEEE arithmetic on float64 scalars:
\* x / 0.0 is +inf for x > 0, -inf for x < 0 and nan for x = 0, and a
\* zero denominator is always +0.0 here (it comes from ra - gmst = 0)
RatioPositive(first, last) ==
    IF last = 0 THEN first > 0
    ELSE (first > 0 /\ last > 0) \/ (first < 0 /\ last < 0)

\* np.roll(row, -1, axis=1)
Roll(row) == [j \in 1..Len(row) |-> row[(j % Len(row)) + 1]]

\* np.argmax: the first index of the maximum
Argmax(row) ==
    CHOOSE j \in 1..Len(row) :
        /\ \A k \in 1..Len(row) : row[k] <= row[j]
        /\ \A k \in 1..(j - 1) : row[k] < row[j]

(***************************************************************************)
(* The environment                                                         *)
(***************************************************************************)
\* "ev0.fits.gz", "ev1.fits.gz.bak", "ev2.fits"
PathA == <<"ev0.", "fits.gz">>
PathB == <<"ev1.", "fits.gz", ".bak">>
PathC == <<"ev2.", "fits">>
Paths == {PathA, PathB, PathC}
BatchPaths == {PathA, PathB}

\* a monotonic ramp of GridWidth columns over 24 hours from start
Ramp(start) ==
    [j \in 1..GridWidth |-> start + (HoursPerDay * (j - 1)) \div GridWidth]
\* a grid that covers a few hours only
Narrow == [j \in 1..GridWidth |-> j]
Peak(k) == [j \in 1..GridWidth |-> IF j = k THEN 9 ELSE 1]
Flat == [j \in 1..GridWidth |-> 0]

GridM == [ra |-> Ramp(-12), dec |-> Flat, prob |-> Peak(2)]
GridP == [ra |-> Ramp(0), dec |-> Flat, prob |-> Peak(3)]
GridN == [ra |-> Narrow, dec |-> Flat, prob |-> Peak(1)]
Grids == {GridM, GridP, GridN}

NoArtifact == [kind |-> "none", grid |-> GridM]
Corrupt == [kind |-> "corrupt", grid |-> GridM]
Fits == [kind |-> "fits", grid |-> GridM]
Npz(g) == [kind |-> "npz", grid |-> g]

\* geocentric end times, in hours
EndHours == HoursPerDay..(2 * HoursPerDay - 1)

NoInj == [found |-> FALSE, geocent_end_time |-> 0]
Inj(t) == [found |-> TRUE, geocent_end_time |-> t]

NoSnrFile == [exists |-> FALSE, dict |-> [k \in {"H1"} |-> 0]]
SnrFile(d) == [exists |-> TRUE, dict |-> d]
SnrDict(n) == [k \in {"H1", "Network"} |-> IF k = "H1" THEN 5 ELSE n]
SnrNoNetwork == [k \in {"H1"} |-> 5]

DefaultData ==
    [inj |-> Inj(24), prob |-> <<100>>, pix |-> 40, snr |-> SnrFile(SnrDict(8)),
     kernel |-> GridM, stale |-> NoArtifact, antenna |-> 1]

\* what one file of a single-file run may look like
FullData ==
    [inj : {NoInj} \cup {Inj(t) : t \in EndHours},
     prob : {<<100>>, <<68, 32>>, <<40, 30, 30>>, <<30, 30, 20, 20>>},
     pix : {1, 40},
     snr : {NoSnrFile, SnrFile(SnrNoNetwork), SnrFile(SnrDict(8))},
     kernel : Grids,
     stale : {NoArtifact, Corrupt, Npz(GridN)},
     antenna : {1}]

\* what one file of a run over several files may look like
CoreData ==
    [inj : {Inj(24)},
     prob : {<<100>>, <<30, 30, 20, 20>>},
     pix : {40},
     snr : {NoSnrFile, SnrFile(SnrDict(8)), SnrFile(SnrDict(13))},
     kernel : {GridM},
     stale : {NoArtifact},
     antenna : {1, 2}]

FileLists ==
    {s \in UNION {[1..k -> BatchPaths] : k \in 0..MaxFiles} :
        \A i, j \in 1..Len(s) : i # j => s[i] # s[j]}

InBatch(files) == {files[l][i] : l \in {1}, i \in 1..Len(files[1])}
                  \cup {files[l][i] : l \in {2}, i \in 1..Len(files[2])}

BatchWorlds ==
    {w \in [files : FileLists \X FileLists, ev : [Paths -> CoreData \cup {DefaultData}]] :
        \A p \in Paths :
            IF p \in InBatch(w.files) THEN w.ev[p] \in CoreData
            ELSE w.ev[p] = DefaultData}

EventWorlds ==
    {[files |-> <<<<p>>, <<>>>>,
      ev |-> [q \in Paths |-> IF q = p THEN d ELSE DefaultData]] :
        p \in Paths, d \in FullData}

Worlds == EventWorlds \cup BatchWorlds

(***************************************************************************)
(* State                                                                   *)
(***************************************************************************)
filename == world.files[li][fi]
label == li

EmptyRow == <<>>
NoSnrs == [k \in {"H1"} |-> 0]

Artifact(p) == SavezName(CacheFname(p))

\* the files on disk when the run starts: the maps, and what earlier runs
\* saved for them
InitialFs(w) ==
    LET left == {p \in Paths : w.ev[p].stale.kind # "none"}
        names == Paths \cup {Artifact(p) : p \in left}
    IN  [n \in names |->
            IF \E p \in left : Artifact(p) = n
            THEN w.ev[CHOOSE p \in left : Artifact(p) = n].stale
            ELSE Fits]

Init ==
    /\ world \in Worlds
    /\ fs = InitialFs(world)
    /\ li = 1
    /\ fi = 1
    /\ pc = "loop"
    /\ err = "none"
    /\ gmst = 0
    /\ cumul = EmptyRow
    /\ pix_size = 0
    /\ prb68 = 0
    /\ prb95 = 0
    /\ prb99 = 0
    /\ flagged = FALSE
    /\ snrs = NoSnrs
    /\ ra_src = EmptyRow
    /\ ra_int = EmptyRow
    /\ dec_int = EmptyRow
    /\ prob_int = EmptyRow
    /\ rolls = 0
    /\ ra_max = 0
    /\ antenna_pattern = 0
    /\ config_information = [l \in 1..Len(Labels) |-> <<>>]
    /\ interp_calls = [p \in Paths |-> 0]
    /\ trace = <<>>

(***************************************************************************)
(* The event loop                                                          *)
(***************************************************************************)
data == world.ev[filename]

Abort(why) ==
    /\ pc' = "aborted"
    /\ err' = why

LoadMapThenSnr ==
    /\ pc = "loop"
    /\ fi <= Len(world.files[li])
    /\ trace' = <<"LOAD_MAP">>
    /\ \/ /\ ~data.inj.found
          /\ Abort("inj")
          /\ UNCHANGED <<gmst, cumul, pix_size>>
       \/ /\ data.inj.found
          /\ gmst' = Gmst(data.inj.geocent_end_time)
          /\ cumul' = Cumul(data.prob)
          /\ pix_size' = data.pix
          /\ pc' = "snr"
          /\ UNCHANGED err
    /\ UNCHANGED <<world, fs, li, fi, prb68, prb95, prb99, flagged, snrs,
                   ra_src, ra_int, dec_int, prob_int, rolls, ra_max,
                   antenna_pattern, config_information, interp_calls>>

\* lines 220-231: event number, injection record, sidereal time, the map
LoadMap ==
    /\ pc = "loop"
    /\ fi <= Len(world.files[li])
    /\ trace' = <<"LOAD_MAP">>
    /\ \/ /\ ~data.inj.found
          /\ Abort("inj")
          /\ UNCHANGED <<gmst, cumul, pix_size>>
       \/ /\ data.inj.found
          /\ gmst' = Gmst(data.inj.geocent_end_time)
          /\ cumul' = Cumul(data.prob)
          /\ pix_size' = data.pix
          /\ pc' = "credible"
          /\ UNCHANGED err
    /\ UNCHANGED <<world, fs, li, fi, prb68, prb95, prb99, flagged, snrs,
                   ra_src, ra_int, dec_int, prob_int, rolls, ra_max,
                   antenna_pattern, config_information, interp_calls>>

CredibleRegionsContinue ==
    /\ pc = "credible"
    /\ prb68' = searchsorted(cumul, Target68)
    /\ prb95' = searchsorted(cumul, Target95)
    /\ prb99' = searchsorted(cumul, Target99)
    /\ flagged' = (prb68' * pix_size > MaxRegion)
    /\ trace' = Append(trace, "CREDIBLE_REGIONS")
    /\ IF flagged' THEN pc' = "loop" /\ fi' = fi + 1
       ELSE pc' = "snr" /\ fi' = fi
    /\ UNCHANGED <<world, fs, li, err, gmst, cumul, pix_size, snrs,
                   ra_src, ra_int, dec_int, prob_int, rolls, ra_max,
                   antenna_pattern, config_information, interp_calls>>

\* lines 233-241: the three searches and the report of a region too large;
\* the "continue" after the report is commented out
CredibleRegions ==
    /\ pc = "credible"
    /\ prb68' = searchsorted(cumul, Target68)
    /\ prb95' = searchsorted(cumul, Target95)
    /\ prb99' = searchsorted(cumul, Target99)
    /\ flagged' = (prb68' * pix_size > MaxRegion)
    /\ trace' = Append(trace, "CREDIBLE_REGIONS")
    /\ pc' = "snr"
    /\ UNCHANGED <<world, fs, li, fi, err, gmst, cumul, pix_size, snrs,
                   ra_src, ra_int, dec_int, prob_int, rolls, ra_max,
                   antenna_pattern, config_information, interp_calls>>

\* lines 242-248: open() of a missing file and snrs["Network"] of a file
\* without that key raise, and nothing catches the exception
ReadSnr ==
    /\ pc = "snr"
    /\ \/ /\ ~data.snr.exists
          /\ Abort("snr")
          /\ UNCHANGED snrs
       \/ /\ data.snr.exists
          /\ "Network" \notin DOMAIN data.snr.dict
          /\ snrs' = data.snr.dict
          /\ Abort("snr")
       \/ /\ data.snr.exists
          /\ "Network" \in DOMAIN data.snr.dict
          /\ snrs' = data.snr.dict
          /\ pc' = "cache"
          /\ UNCHANGED err
    /\ UNCHANGED <<world, fs, li, fi, gmst, cumul, pix_size, prb68, prb95,
                   prb99, flagged, ra_src, ra_int, dec_int, prob_int, rolls,
                   ra_max, antenna_pattern, config_information,
                   interp_calls, trace>>

\* lines 257-264
CacheLookup ==
    /\ pc = "cache"
    /\ trace' = Append(trace, "CACHE_LOOKUP")
    /\ LET cache_fname == CacheFname(filename)
       IN  \/ /\ cache_fname \in DOMAIN fs
              /\ fs[cache_fname].kind = "npz"
              /\ ra_src' = fs[cache_fname].grid.ra
              /\ dec_int' = fs[cache_fname].grid.dec
              /\ prob_int' = fs[cache_fname].grid.prob
              /\ pc' = "rotate"
              /\ UNCHANGED <<fs, interp_calls, err>>
           \/ /\ cache_fname \in DOMAIN fs
              /\ fs[cache_fname].kind # "npz"
              /\ Abort("cache")
              /\ UNCHANGED <<fs, interp_calls, ra_src, dec_int, prob_int>>
           \/ /\ cache_fname \notin DOMAIN fs
              /\ ra_src' = data.kernel.ra
              /\ dec_int' = data.kernel.dec
              /\ prob_int' = data.kernel.prob
              /\ interp_calls' = [interp_calls EXCEPT ![filename] = @ + 1]
              /\ fs' = (SavezName(cache_fname) :> Npz(data.kernel)) @@ fs
              /\ pc' = "rotate"
              /\ UNCHANGED err
    /\ UNCHANGED <<world, li, fi, gmst, cumul, pix_size, prb68, prb95,
                   prb99, flagged, snrs, ra_int, rolls, ra_max,
                   antenna_pattern, config_information>>

\* lines 268-273: the shift by the sidereal time and the wraparound
Rotate ==
    /\ pc = "rotate"
    /\ trace' = Append(trace, "ROTATE")
    /\ ra_int' = [j \in 1..Len(ra_src) |-> Wrap(Shift(ra_src[j], gmst))]
    /\ rolls' = 0
    /\ pc' = "roll"
    /\ UNCHANGED <<world, fs, li, fi, err, gmst, cumul, pix_size, prb68,
                   prb95, prb99, flagged, snrs, ra_src, dec_int, prob_int,
                   ra_max, antenna_pattern, config_information,
                   interp_calls>>

\* lines 276-278: one turn of the while loop
RollStep ==
    /\ pc = "roll"
    /\ RatioPositive(ra_int[1], ra_int[Len(ra_int)])
    /\ rolls < RollCap
    /\ ra_int' = Roll(ra_int)
    /\ prob_int' = Roll(prob_int)
    /\ rolls' = rolls + 1
    /\ UNCHANGED <<world, fs, li, fi, pc, err, gmst, cumul, pix_size, prb68,
                   prb95, prb99, flagged, snrs, ra_src, dec_int, ra_max,
                   antenna_pattern, config_information, interp_calls, trace>>

\* lines 276, 279: the loop condition is false; the sign is inverted
RollExit ==
    /\ pc = "roll"
    /\ ~RatioPositive(ra_int[1], ra_int[Len(ra_int)])
    /\ ra_int' = [j \in 1..Len(ra_int) |-> -ra_int[j]]
    /\ pc' = "peak"
    /\ UNCHANGED <<world, fs, li, fi, err, gmst, cumul, pix_size, prb68,
                   prb95, prb99, flagged, snrs, ra_src, dec_int, prob_int,
                   rolls, ra_max, antenna_pattern, config_information,
                   interp_calls, trace>>

\* lines 286-290
LocatePeak ==
    /\ pc = "peak"
    /\ trace' = Append(trace, "LOCATE_PEAK")
    /\ ra_max' = ra_int[Argmax(prob_int)]
    /\ pc' = "antenna"
    /\ UNCHANGED <<world, fs, li, fi, err, gmst, cumul, pix_size, prb68,
                   prb95, prb99, flagged, snrs, ra_src, ra_int, dec_int,
                   prob_int, rolls, antenna_pattern, config_information,
                   interp_calls>>

\* line 303: the response of the network at the peak, from the evaluator
EvaluateAntenna ==
    /\ pc = "antenna"
    /\ trace' = Append(trace, "EVALUATE_ANTENNA")
    /\ antenna_pattern' = data.antenna
    /\ pc' = "emit"
    /\ UNCHANGED <<world, fs, li, fi, err, gmst, cumul, pix_size, prb68,
                   prb95, prb99, flagged, snrs, ra_src, ra_int, dec_int,
                   prob_int, rolls, ra_max, config_information,
                   interp_calls>>

record == <<prb68 * pix_size, snrs["Network"], antenna_pattern>>

EmitOverwrite ==
    /\ pc = "emit"
    /\ trace' = Append(trace, "EMIT")
    /\ config_information' =
           [config_information EXCEPT ![label] = <<record>>]
    /\ fi' = fi + 1
    /\ pc' = "loop"
    /\ UNCHANGED <<world, fs, li, err, interp_calls>>
    /\ UNCHANGED eventVars

\* lines 304-310: the record joins the list of its label and the loop
\* goes to the next file
Emit ==
    /\ pc = "emit"
    /\ trace' = Append(trace, "EMIT")
    /\ config_information' =
           [config_information EXCEPT ![label] = Append(@, record)]
    /\ fi' = fi + 1
    /\ pc' = "loop"
    /\ UNCHANGED <<world, fs, li, err, interp_calls>>
    /\ UNCHANGED eventVars

\* lines 211-216: the files of this label are exhausted
NextLabel ==
    /\ pc = "loop"
    /\ fi > Len(world.files[li])
    /\ li < Len(Labels)
    /\ li' = li + 1
    /\ fi' = 1
    /\ UNCHANGED <<world, fs, pc, err, config_information, interp_calls,
                   trace>>
    /\ UNCHANGED eventVars

\* the last label is exhausted: the loop ends, the summary plots follow
Finish ==
    /\ pc = "loop"
    /\ fi > Len(world.files[li])
    /\ li = Len(Labels)
    /\ pc' = "done"
    /\ UNCHANGED <<world, fs, li, fi, err, config_information, interp_calls,
                   trace>>
    /\ UNCHANGED eventVars

Next ==
    \/ LoadMap
    \/ CredibleRegions
    \/ ReadSnr
    \/ CacheLookup
    \/ Rotate
    \/ RollStep
    \/ RollExit
    \/ LocatePeak
    \/ EvaluateAntenna
    \/ Emit
    \/ NextLabel
    \/ Finish

Spec == Init /\ [][Next]_vars

(***************************************************************************)
(* Properties                                                              *)
(***************************************************************************)
IsPrefix(s, t) == Len(s) <= Len(t) /\ \A i \in 1..Len(s) : s[i] = t[i]

\* the events of label l the loop has gone past
Processed(l) ==
    IF l < li THEN Len(world.files[l])
    ELSE IF l = li THEN fi - 1
    ELSE 0

LaterFiles ==
    \/ fi < Len(world.files[li])
    \/ \E l \in (li + 1)..Len(Labels) : Len(world.files[l]) > 0

AreaOf(p) == searchsorted(Cumul(world.ev[p].prob), Target68) * world.ev[p].pix
RecordOf(p) ==
    <<AreaOf(p), world.ev[p].snr.dict["Network"], world.ev[p].antenna>>

\* the least number of pixels, taken in descending probability, whose
\* cumulative probability reaches v
SmallestCount(c, v) ==
    CHOOSE n \in 1..Len(c) : c[n] >= v /\ \A m \in 1..(n - 1) : c[m] < v

InHours(row) == \A j \in 1..Len(row) : 0 <= row[j] /\ row[j] < HoursPerDay

SpecOrder ==
    <<"LOAD_MAP", "CACHE_LOOKUP", "ROTATE", "CREDIBLE_REGIONS",
      "LOCATE_PEAK", "EVALUATE_ANTENNA", "EMIT">>
CodeOrder ==
    <<"LOAD_MAP", "CREDIBLE_REGIONS", "CACHE_LOOKUP", "ROTATE",
      "LOCATE_PEAK", "EVALUATE_ANTENNA", "EMIT">>

\* C1: when the SNR file of an event is missing or has no "Network" entry,
\* only that event fails and the later files of the batch are still
\* processed: the run is never stopped by it with files left over.
C1_SnrFailureContinues ==
    err = "snr" => ~(pc = "aborted" /\ LaterFiles)

\* C2: the roll loop performs at most GridWidth one-column rolls.
C2_RollsBounded == rolls <= GridWidth

\* C3: for the ramp over [-180,180) shifted by the sidereal time and
\* wrapped, the roll loop exits, before the sign inversion, with
\* ra[0,0] <= 0 <= ra[0,-1].
C3_ExitStraddlesZero ==
    (/\ pc = "roll"
     /\ ra_src = Ramp(-12)
     /\ ~RatioPositive(ra_int[1], ra_int[Len(ra_int)]))
        => (ra_int[1] <= 0 /\ 0 <= ra_int[Len(ra_int)])

\* C4: the 68% area is the solid angle of one pixel times the least number
\* of highest-probability pixels whose cumulative probability reaches 0.68.
C4_AreaIsSmallestRegion ==
    pc = "snr" => prb68 * pix_size = SmallestCount(cumul, Target68) * pix_size

\* C5: after a lookup that missed and invoked the interpolation kernel, a
\* later lookup for the same source path does not invoke it again: the
\* kernel runs at most once per source path.
C5_KernelOncePerPath == \A p \in Paths : interp_calls[p] <= 1

C8_OneRecordPerEvent ==
    \A l \in 1..Len(Labels) :
        /\ Len(config_information[l]) = Processed(l)
        /\ \A i \in 1..Processed(l) :
              config_information[l][i] = RecordOf(world.files[l][i])

C8_Witness ==
    /\ pc = "done"
    /\ Len(config_information[1]) = 2
    /\ Len(config_information[2]) >= 1
    /\ config_information[1][1] # config_information[1][2]

\* C9: in the roll loop, no roll is performed in a state whose denominator
\* ra[0,-1] is zero, whatever the sign of ra[0,0].
C9_ZeroDenominatorStops ==
    [][(pc = "roll" /\ ra_int[Len(ra_int)] = 0) => rolls' = rolls]_vars

\* C10: after the shift and the wraparound every RA value lies in
\* (-180, 180], for input RA in [0h, 24h) and any sidereal time.
C10_HalfOpenRange ==
    (pc = "roll" /\ InHours(ra_src)) =>
        \A j \in 1..Len(ra_int) : -HalfTurn < ra_int[j] /\ ra_int[j] <= HalfTurn

\* C10 as amended: after the shift and the wraparound every RA value lies
\* in the closed range [-180, 180], for input RA in [0h, 24h) and any
\* sidereal time; a shifted value of exactly -180 stays -180.
C10_ClosedRange ==
    (pc = "roll" /\ InHours(ra_src)) =>
        \A j \in 1..Len(ra_int) : -HalfTurn <= ra_int[j] /\ ra_int[j] <= HalfTurn

C10_Witness ==
    /\ pc = "roll"
    /\ rolls = 0
    /\ InHours(ra_src)
    /\ \E j \in 1..Len(ra_int) : ra_int[j] = -HalfTurn
    /\ \E j \in 1..Len(ra_int) : Shift(ra_src[j], gmst) # ra_int[j]
====
